---- MODULE Spec2Model ----
(***************************************************************************)
(* A model of recsys.py: the three map-reduce steps of SocRecSys           *)
(* (inputmap/joinred, sumred, rowgroupmap/topkoutput) and the option       *)
(* values configure_options declares.                                      *)
(*                                                                         *)
(* Python strings are sequences of one-character strings, so that split,   *)
(* strip and int are computed and not assumed.  A Python tuple is a TLA+   *)
(* tuple.  A step's shuffled output is a bag of <<key, value>> pairs; the  *)
(* order in which the values of one key reach its reducer is chosen freely *)
(* at every reducer call.                                                  *)
(***************************************************************************)
EXTENDS Integers, Sequences, FiniteSets, Bags, TLC

VARIABLES
    options,    \* self.options: [avg, topk], each a typed Python value
    input,      \* the input lines of the job
    todo,       \* input lines not yet given to inputmap
    mapout1,    \* bag of <<key, val>> yielded by inputmap
    joinout,    \* joinred calls made: key -> the sequence it yielded
    sumout,     \* sumred calls made: key -> the sequence it yielded
    scored,     \* step 2 output handed to step 3: set of <<key, score>>
    todo3,      \* step 2 outputs not yet given to rowgroupmap
    mapout3,    \* bag of <<key, val>> yielded by rowgroupmap
    topkout,    \* topkoutput calls made: key -> the sequence it yielded
    status,     \* "running", or "failed" once a task raised
    err,        \* the exception that failed the job, or "none"
    red,        \* statement-level run: the reducer being executed
    pending,    \* statement-level run: values of vals not yet consumed
    tusers,     \* statement-level run: joinred's tusers list
    ratobjs,    \* statement-level run: joinred's ratobjs list
    acc,        \* statement-level run: sumred's [s, n]
    emitted,    \* statement-level run: what the call has yielded so far
    pc          \* statement-level run: position in the reducer

vars == <<options, input, todo, mapout1, joinout, sumout, scored, todo3,
          mapout3, topkout, status, err, red, pending, tusers, ratobjs,
          acc, emitted, pc>>

pipevars == <<options, input, todo, mapout1, joinout, sumout, status, err>>
topkvars == <<scored, todo3, mapout3, topkout>>
stmtvars == <<red, pending, tusers, ratobjs, acc, emitted, pc>>

(***************************************************************************)
(* Bounds of the model.                                                    *)
(***************************************************************************)
MaxRows == 4      \* input lines of one job
MaxScored == 3    \* step 2 outputs handed to step 3
MaxVals == 3      \* values of the key of a statement-level reducer run

(***************************************************************************)
(* Sequences and bags.                                                     *)
(***************************************************************************)
Range(s) == {s[i] : i \in DOMAIN s}

BagOfSeq(s) == [x \in Range(s) |-> Cardinality({i \in DOMAIN s : s[i] = x})]

\* The sequences that hold exactly the elements of bag B.
Orders(B) ==
    LET n == BagCardinality(B)
    IN  {s \in [1..n -> DOMAIN B] :
            \A v \in DOMAIN B : Cardinality({i \in 1..n : s[i] = v}) = B[v]}

\* The values shuffled to key k, as a bag.
Group(M, k) ==
    LET vs == {p[2] : p \in {q \in DOMAIN M : q[1] = k}}
    IN  [v \in vs |-> M[<<k, v>>]]

Keys(M) == {p[1] : p \in DOMAIN M}

(***************************************************************************)
(* Python string operations.                                               *)
(***************************************************************************)
Tab == "\t"
Space == " "
Digits == <<"0", "1", "2", "3", "4", "5", "6", "7", "8", "9">>
IsDigit(c) == \E d \in DOMAIN Digits : Digits[d] = c
DigitVal(c) == (CHOOSE d \in DOMAIN Digits : Digits[d] = c) - 1
IsSpace(c) == c \in {Space, Tab}

RECURSIVE PySplit(_, _)
\* str.split(sep) for a one-character separator: the fields between the
\* separators, always at least one.
PySplit(s, sep) ==
    IF \A i \in DOMAIN s : s[i] # sep
    THEN <<s>>
    ELSE LET i == CHOOSE j \in DOMAIN s :
                      s[j] = sep /\ \A h \in 1..(j - 1) : s[h] # sep
         IN  <<SubSeq(s, 1, i - 1)>> \o PySplit(SubSeq(s, i + 1, Len(s)), sep)

RECURSIVE LStrip(_)
LStrip(s) == IF s # <<>> /\ IsSpace(Head(s)) THEN LStrip(Tail(s)) ELSE s

RECURSIVE RStrip(_)
RStrip(s) ==
    IF s # <<>> /\ IsSpace(s[Len(s)]) THEN RStrip(SubSeq(s, 1, Len(s) - 1)) ELSE s

\* str.strip()
PyStrip(s) == RStrip(LStrip(s))

RECURSIVE DecVal(_)
DecVal(s) ==
    IF s = <<>> THEN 0 ELSE 10 * DecVal(SubSeq(s, 1, Len(s) - 1)) + DigitVal(s[Len(s)])

\* int(str): surrounding white space and one sign are accepted, then one
\* or more decimal digits; anything else raises ValueError.
PyInt(s) ==
    LET t == PyStrip(s)
        signed == t # <<>> /\ Head(t) \in {"+", "-"}
        d == IF signed THEN Tail(t) ELSE t
    IN  IF d # <<>> /\ \A i \in DOMAIN d : IsDigit(d[i])
        THEN [ok |-> TRUE,
              v |-> IF signed /\ Head(t) = "-" THEN 0 - DecVal(d) ELSE DecVal(d)]
        ELSE [ok |-> FALSE, v |-> 0]

(***************************************************************************)
(* Python values of the option parser.  add_passthrough_option is given no *)
(* type, so a value taken from the command line is a str, and a default is *)
(* the object written in the call.                                         *)
(***************************************************************************)
PyStr(s) == [type |-> "str", str |-> s, int |-> 0]
PyNum(n) == [type |-> "int", str |-> <<>>, int |-> n]

DefaultTopK == 25
DefaultAvg == PyStr(<<"3">>)

DefaultOptions == [avg |-> DefaultAvg, topk |-> PyNum(DefaultTopK)]

\* self.options after configure_options and the command line.
OptionValues ==
    { DefaultOptions,
      [avg |-> PyStr(<<"4">>), topk |-> PyStr(<<"-", "1">>)] }

(***************************************************************************)
(* Step 1, mapper.                                                         *)
(***************************************************************************)
NoRaise == "none"
Result(e, o) == [err |-> e, out |-> o]

\* inputmap with a slip: the test value > 0 left out.
InputMapTrustAny(line) ==
    LET parts == PySplit(line, Tab)
    IN  IF Len(parts) = 8
        THEN IF PyInt(parts[3]).ok
             THEN Result(NoRaise,
                         <<<<PyStrip(parts[2]),
                             <<PyStrip(parts[1]), PyInt(parts[3]).v>>>>>>)
             ELSE Result("ValueError", <<>>)
        ELSE IF Len(parts) = 4
        THEN IF PyInt(parts[3]).ok
             THEN Result(NoRaise, <<<<PyStrip(parts[2]), <<PyStrip(parts[1])>>>>>>)
             ELSE Result("ValueError", <<>>)
        ELSE Result(NoRaise, <<>>)

\* inputmap with a slip: len(parts) >= 4 for len(parts) == 4.
InputMapAtLeast4(line) ==
    LET parts == PySplit(line, Tab)
    IN  IF Len(parts) = 8
        THEN IF PyInt(parts[3]).ok
             THEN Result(NoRaise,
                         <<<<PyStrip(parts[2]),
                             <<PyStrip(parts[1]), PyInt(parts[3]).v>>>>>>)
             ELSE Result("ValueError", <<>>)
        ELSE IF Len(parts) >= 4
        THEN IF PyInt(parts[3]).ok
             THEN IF PyInt(parts[3]).v > 0
                  THEN Result(NoRaise, <<<<PyStrip(parts[2]), <<PyStrip(parts[1])>>>>>>)
                  ELSE Result(NoRaise, <<>>)
             ELSE Result("ValueError", <<>>)
        ELSE Result(NoRaise, <<>>)

\* inputmap(key, line): what it yields, or the exception int() raises.
InputMapOut(line) ==
    LET parts == PySplit(line, Tab)
    IN  IF Len(parts) = 8
        THEN LET objid == PyStrip(parts[1])
                 uid == PyStrip(parts[2])
                 rat == PyInt(parts[3])
             IN  IF rat.ok
                 THEN Result(NoRaise, <<<<uid, <<objid, rat.v>>>>>>)
                 ELSE Result("ValueError", <<>>)
        ELSE IF Len(parts) = 4
        THEN LET myid == PyStrip(parts[1])
                 otherid == PyStrip(parts[2])
                 value == PyInt(parts[3])
             IN  IF value.ok
                 THEN IF value.v > 0
                      THEN Result(NoRaise, <<<<otherid, <<myid>>>>>>)
                      ELSE Result(NoRaise, <<>>)
                 ELSE Result("ValueError", <<>>)
        ELSE Result(NoRaise, <<>>)

(***************************************************************************)
(* Step 1, reducer.                                                        *)
(***************************************************************************)
\* joinred with a slip: only the first trusting user is joined.
JoinRedFirstTruster(key, vals) ==
    LET T == SelectSeq(vals, LAMBDA v : Len(v) = 1)
        R == SelectSeq(vals, LAMBDA v : Len(v) # 1)
    IN  IF T = <<>> THEN <<>>
        ELSE [i \in 1..Len(R) |-> <<<<T[1][1], R[i][1]>>, R[i][2]>>]

\* joinred(key, vals): the sequence it yields.
JoinRedOut(key, vals) ==
    LET T == SelectSeq(vals, LAMBDA v : Len(v) = 1)      \* tusers, as 1-tuples
        R == SelectSeq(vals, LAMBDA v : Len(v) # 1)      \* ratobjs
        m == Len(T)
    IN  [idx \in 1..(Len(R) * m) |->
            LET i == ((idx - 1) \div m) + 1
                j == ((idx - 1) % m) + 1
            IN  <<<<T[j][1], R[i][1]>>, R[i][2]>>]

(***************************************************************************)
(* Step 2, reducer.  A score is the exact quotient [num, den] in lowest    *)
(* terms: the floats involved are quotients of small integers, which are   *)
(* equal exactly when the quotients are.                                   *)
(***************************************************************************)
RECURSIVE Gcd(_, _)
Gcd(a, b) == IF b = 0 THEN a ELSE Gcd(b, a % b)

Abs(a) == IF a < 0 THEN 0 - a ELSE a

Quot(n, d) == LET g == Gcd(Abs(n), d) IN [num |-> n \div g, den |-> d \div g]

RECURSIVE SumSeq(_)
SumSeq(s) == IF s = <<>> THEN 0 ELSE Head(s) + SumSeq(Tail(s))

\* float + x: defined for a number, TypeError for a str.
FloatAdd(s, x) ==
    IF x.type = "str"
    THEN [ok |-> FALSE, v |-> 0]
    ELSE [ok |-> TRUE, v |-> s + x.int]

\* sumred(key, vals): what it yields, or the exception the sum raises.
SumRedOut(key, vals, opts) ==
    LET s == SumSeq(vals)
        n == Len(vals)
        t == FloatAdd(s, opts.avg)
    IN  IF t.ok
        THEN Result(NoRaise, <<<<key, Quot(t.v, n + 1)>>>>)
        ELSE Result("TypeError", <<>>)

(***************************************************************************)
(* Step 3.                                                                 *)
(***************************************************************************)
\* rowgroupmap(key, val)
RowGroupMapOut(key, val) == <<<<key[1], <<key[2], val>>>>>>

ScoreLess(a, b) == a.num * b.den < b.num * a.den

\* The keyword arguments sorted() of Python 2 accepts.
SortedKeywords == {"cmp", "key", "reverse"}

RECURSIVE InsertDesc(_, _)
\* x put behind every element whose score is not smaller (a stable sort).
InsertDesc(s, x) ==
    IF s = <<>> THEN <<x>>
    ELSE IF ScoreLess(Head(s)[2], x[2]) THEN <<x>> \o s
    ELSE <<Head(s)>> \o InsertDesc(Tail(s), x)

RECURSIVE SortDesc(_)
SortDesc(s) ==
    IF s = <<>> THEN <<>>
    ELSE InsertDesc(SortDesc(SubSeq(s, 1, Len(s) - 1)), s[Len(s)])

\* sorted(vals, key=operator.itemgetter(1), <kw>=True): an unknown keyword
\* raises TypeError before anything is sorted.
PySorted(vals, kw) ==
    IF kw \in SortedKeywords
    THEN [ok |-> TRUE, v |-> SortDesc(vals)]
    ELSE [ok |-> FALSE, v |-> <<>>]

\* min(k, n) of Python 2 for an option value k and an int n: a number is
\* smaller than any str.
PyMin(k, n) ==
    IF k.type = "str" THEN n
    ELSE IF k.int < n THEN k.int ELSE n

\* topkoutput(key, vals): what it yields, or the exception sorted() raises.
TopKOutputOut(key, vals, opts) ==
    LET sorted == PySorted(vals, "reversed")
    IN  IF ~sorted.ok
        THEN Result("TypeError", <<>>)
        ELSE LET k == opts.topk
                 m == PyMin(k, Len(sorted.v))
                 recs == [i \in 1..m |-> sorted.v[i]]
             IN  Result(NoRaise, <<<<key, recs>>>>)

(***************************************************************************)
(* The job: steps 1 and 2 on a set of input lines.                         *)
(***************************************************************************)
\* Field strings.
A == <<"a">>
B == <<"b">>
C == <<"c">>
I == <<"i">>
J == <<"j">>
Pad(s) == <<Space>> \o s
Filler == <<"x">>

RECURSIVE JoinTab(_)
JoinTab(fields) ==
    IF Len(fields) = 1 THEN fields[1]
    ELSE fields[1] \o <<Tab>> \o JoinTab(Tail(fields))

RatingLine(o, u, r) == JoinTab(<<o, u, r, Filler, Filler, Filler, Filler, Filler>>)
TrustLine(m, o, v) == JoinTab(<<m, o, v, Filler>>)

\* The lines a job's input is drawn from: rating rows of user a, trust
\* rows, rows with a bad number, and a row of 5 fields.
Lines ==
    { RatingLine(I, A, <<"4">>), RatingLine(I, Pad(A), <<"5">>),
      RatingLine(Pad(J), A, <<"5">>),
      RatingLine(I, A, <<"x">>), RatingLine(J, A, <<"9">>),
      TrustLine(B, A, <<"1">>), TrustLine(C, A, <<"+", "1">>),
      TrustLine(Pad(B), A, <<"1">>), TrustLine(A, B, <<"1">>),
      TrustLine(B, A, <<"-", "1">>), TrustLine(C, A, <<"0">>),
      TrustLine(C, A, <<"2">>),
      JoinTab(<<C, A, <<"1">>, Filler, Filler>>) }

idletopk ==
    /\ scored = {} /\ todo3 = {} /\ mapout3 = EmptyBag /\ topkout = <<>>

idlestmt ==
    /\ red = "none" /\ pending = <<>> /\ tusers = <<>> /\ ratobjs = <<>>
    /\ acc = [s |-> 0, n |-> 0] /\ emitted = <<>> /\ pc = "none"

idlepipe ==
    /\ input = {} /\ todo = {} /\ mapout1 = EmptyBag
    /\ joinout = <<>> /\ sumout = <<>>

Init ==
    /\ options \in OptionValues
    /\ input \in {S \in SUBSET Lines : Cardinality(S) <= MaxRows}
    /\ todo = input
    /\ mapout1 = EmptyBag
    /\ joinout = <<>>
    /\ sumout = <<>>
    /\ status = "running"
    /\ err = NoRaise
    /\ idletopk
    /\ idlestmt

\* One map task of step 1: inputmap on one line.
InputMap ==
    /\ status = "running"
    /\ \E line \in todo :
         LET r == InputMapOut(line)
         IN  /\ todo' = todo \ {line}
             /\ IF r.err = NoRaise
                THEN /\ mapout1' = mapout1 (+) BagOfSeq(r.out)
                     /\ UNCHANGED <<status, err>>
                ELSE /\ status' = "failed"
                     /\ err' = r.err
                     /\ UNCHANGED mapout1
    /\ UNCHANGED <<options, input, joinout, sumout>>
    /\ UNCHANGED <<topkvars, stmtvars>>

\* One reduce call of step 1, after every line is mapped.
JoinRed ==
    /\ status = "running"
    /\ todo = {}
    /\ \E key \in Keys(mapout1) \ DOMAIN joinout :
         \E vals \in Orders(Group(mapout1, key)) :
            joinout' = joinout @@ (key :> JoinRedOut(key, vals))
    /\ UNCHANGED <<options, input, todo, mapout1, sumout, status, err>>
    /\ UNCHANGED <<topkvars, stmtvars>>

RECURSIVE BagOfCalls(_)
\* Everything the calls recorded in f yielded, as a bag.
BagOfCalls(f) ==
    IF DOMAIN f = {} THEN EmptyBag
    ELSE LET k == CHOOSE x \in DOMAIN f : TRUE
         IN  BagOfSeq(f[k]) (+) BagOfCalls([x \in DOMAIN f \ {k} |-> f[x]])

Step1Done == todo = {} /\ Keys(mapout1) \subseteq DOMAIN joinout

\* One reduce call of step 2 (its mapper is None), after step 1 is done.
SumRed ==
    /\ status = "running"
    /\ Step1Done
    /\ LET joined == BagOfCalls(joinout)
       IN  \E key \in Keys(joined) \ DOMAIN sumout :
             \E vals \in Orders(Group(joined, key)) :
                LET r == SumRedOut(key, vals, options)
                IN  /\ sumout' = sumout @@ (key :> r.out)
                    /\ IF r.err = NoRaise
                       THEN UNCHANGED <<status, err>>
                       ELSE status' = "failed" /\ err' = r.err
    /\ UNCHANGED <<options, input, todo, mapout1, joinout>>
    /\ UNCHANGED <<topkvars, stmtvars>>

Next == InputMap \/ JoinRed \/ SumRed

Spec == Init /\ [][Next]_vars

(***************************************************************************)
(* Step 3 on its own.  sumred raises for every value the options can take  *)
(* (the average is always a str), so no run of the job hands step 3 a      *)
(* record; rowgroupmap and topkoutput are run here on step 2 outputs drawn *)
(* from a pool: one score per (user, item) key.                            *)
(***************************************************************************)
ScorePool == {Quot(9, 2), Quot(3, 1)}

ScoredPool == {<<<<u, o>>, sc>> : u \in {A, B}, o \in {I, J}, sc \in ScorePool}

InitTopK ==
    /\ options \in OptionValues
    /\ scored \in {S \in SUBSET ScoredPool :
                     /\ Cardinality(S) <= MaxScored
                     /\ \A p, q \in S : p[1] = q[1] => p = q}
    /\ todo3 = scored
    /\ mapout3 = EmptyBag
    /\ topkout = <<>>
    /\ status = "running"
    /\ err = NoRaise
    /\ idlepipe
    /\ idlestmt

\* One map task of step 3: rowgroupmap on one output of step 2.
RowGroupMap ==
    /\ status = "running"
    /\ \E p \in todo3 :
         /\ todo3' = todo3 \ {p}
         /\ mapout3' = mapout3 (+) BagOfSeq(RowGroupMapOut(p[1], p[2]))
    /\ UNCHANGED <<scored, topkout>>
    /\ UNCHANGED <<pipevars, stmtvars>>

\* One reduce call of step 3, after every record is mapped.
TopKOutput ==
    /\ status = "running"
    /\ todo3 = {}
    /\ \E key \in Keys(mapout3) \ DOMAIN topkout :
         \E vals \in Orders(Group(mapout3, key)) :
            LET r == TopKOutputOut(key, vals, options)
            IN  /\ topkout' = topkout @@ (key :> r.out)
                /\ IF r.err = NoRaise
                   THEN UNCHANGED <<status, err>>
                   ELSE status' = "failed" /\ err' = r.err
    /\ UNCHANGED <<scored, todo3, mapout3>>
    /\ UNCHANGED <<options, input, todo, mapout1, joinout, sumout>>
    /\ UNCHANGED stmtvars

NextTopK == RowGroupMap \/ TopKOutput

SpecTopK == InitTopK /\ [][NextTopK]_vars

(***************************************************************************)
(* One reducer call, statement by statement: each value taken from vals    *)
(* and each yield is a step.                                               *)
(***************************************************************************)
Reducers == {"joinred", "sumred", "topkoutput"}

ValPool(r) ==
    IF r = "joinred" THEN {<<B>>, <<C>>, <<I, 4>>, <<J, 5>>}
    ELSE IF r = "sumred" THEN {4, 5}
    ELSE {<<I, Quot(9, 2)>>, <<J, Quot(3, 1)>>}

StmtKey(r) == IF r = "joinred" THEN A ELSE IF r = "sumred" THEN <<B, I>> ELSE B

SeqsUpTo(S, n) == UNION {[1..m -> S] : m \in 0..n}

InitStmt ==
    /\ options \in OptionValues
    /\ red \in Reducers
    /\ pending \in SeqsUpTo(ValPool(red), MaxVals)
    /\ tusers = <<>>
    /\ ratobjs = <<>>
    /\ acc = [s |-> 0, n |-> 0]
    /\ emitted = <<>>
    /\ pc = "loop"
    /\ status = "running"
    /\ err = NoRaise
    /\ idlepipe
    /\ idletopk

\* The loop with a slip: the code after it may run while vals still holds
\* values.
LoopLeftEarly(p) == TRUE

\* "for val in vals" is left when vals has no value left.
LoopExhausted(p) == p = <<>>

\* joinred, lines 59-63: one turn of the loop.
JoinLoop ==
    /\ red = "joinred" /\ status = "running"
    /\ pending # <<>>
    /\ LET val == Head(pending)
       IN  IF Len(val) = 1
           THEN tusers' = Append(tusers, val[1]) /\ UNCHANGED ratobjs
           ELSE ratobjs' = Append(ratobjs, val) /\ UNCHANGED tusers
    /\ pending' = Tail(pending)
    /\ UNCHANGED <<acc, emitted, pc, red>>
    /\ UNCHANGED <<pipevars, topkvars>>

\* joinred, lines 64-66: the next yield of the nested loops.
JoinYield ==
    /\ red = "joinred" /\ status = "running"
    /\ LoopExhausted(pending)
    /\ Len(emitted) < Len(ratobjs) * Len(tusers)
    /\ LET idx == Len(emitted) + 1
           i == ((idx - 1) \div Len(tusers)) + 1
           j == ((idx - 1) % Len(tusers)) + 1
       IN  emitted' = Append(emitted, <<<<tusers[j], ratobjs[i][1]>>, ratobjs[i][2]>>)
    /\ pc' = "yield"
    /\ UNCHANGED <<red, pending, tusers, ratobjs, acc>>
    /\ UNCHANGED <<pipevars, topkvars>>

\* sumred, lines 71-73: one turn of the loop.
SumLoop ==
    /\ red = "sumred" /\ status = "running" /\ pc = "loop"
    /\ pending # <<>>
    /\ acc' = [s |-> acc.s + Head(pending), n |-> acc.n + 1]
    /\ pending' = Tail(pending)
    /\ UNCHANGED <<red, tusers, ratobjs, emitted, pc>>
    /\ UNCHANGED <<pipevars, topkvars>>

\* sumred, line 75: the yield, or the exception its expression raises.
SumYield ==
    /\ red = "sumred" /\ status = "running" /\ pc = "loop"
    /\ LoopExhausted(pending)
    /\ LET t == FloatAdd(acc.s, options.avg)
       IN  IF t.ok
           THEN /\ emitted' = <<<<StmtKey(red), Quot(t.v, acc.n + 1)>>>>
                /\ pc' = "done"
                /\ UNCHANGED <<status, err>>
           ELSE /\ status' = "failed"
                /\ err' = "TypeError"
                /\ pc' = "raised"
                /\ UNCHANGED emitted
    /\ UNCHANGED <<red, pending, tusers, ratobjs, acc>>
    /\ UNCHANGED <<options, input, todo, mapout1, joinout, sumout>>
    /\ UNCHANGED topkvars

\* topkoutput, lines 81-86: sorted() takes every value of vals, unless it
\* raises on its keyword first.
TopKSorted ==
    /\ red = "topkoutput" /\ status = "running" /\ pc = "loop"
    /\ LET r == TopKOutputOut(StmtKey(red), pending, options)
       IN  IF r.err = NoRaise
           THEN /\ pending' = <<>>
                /\ emitted' = r.out
                /\ pc' = "done"
                /\ UNCHANGED <<status, err>>
           ELSE /\ status' = "failed"
                /\ err' = r.err
                /\ pc' = "raised"
                /\ UNCHANGED <<pending, emitted>>
    /\ UNCHANGED <<red, tusers, ratobjs, acc>>
    /\ UNCHANGED <<options, input, todo, mapout1, joinout, sumout>>
    /\ UNCHANGED topkvars

NextStmt == JoinLoop \/ JoinYield \/ SumLoop \/ SumYield \/ TopKSorted

SpecStmt == InitStmt /\ [][NextStmt]_vars

(***************************************************************************)
(* Vocabulary of the properties.                                           *)
(***************************************************************************)
Fields(l) == PySplit(l, Tab)
Mapped == input \ todo

IsRatingRow(l) == Len(Fields(l)) = 8
IsTrustRow(l) == Len(Fields(l)) = 4
NumberOf(l) == PyInt(Fields(l)[3])

\* Rating rows by user U, and positive trust rows naming U as trustee.
RatingRowsBy(U) ==
    {l \in input : IsRatingRow(l) /\ NumberOf(l).ok /\ PyStrip(Fields(l)[2]) = U}
PosTrustRowsOf(U) ==
    {l \in input : /\ IsTrustRow(l) /\ NumberOf(l).ok /\ NumberOf(l).v > 0
                   /\ PyStrip(Fields(l)[2]) = U}

\* The contribution of one (trust row, rating row) pair.
PairOf(tl, rl) ==
    <<<<PyStrip(Fields(tl)[1]), PyStrip(Fields(rl)[1])>>, NumberOf(rl).v>>

NonPosTrustRow(l) == IsTrustRow(l) /\ NumberOf(l).ok /\ NumberOf(l).v <= 0
MalformedRow(l) == Len(Fields(l)) \notin {4, 8}
InvalidNumericRow(l) ==
    \/ IsRatingRow(l) /\ (~NumberOf(l).ok \/ NumberOf(l).v \notin 1..5)
    \/ IsTrustRow(l) /\ (~NumberOf(l).ok \/ NumberOf(l).v \notin {0 - 1, 1})

RECURSIVE MapBag(_)
\* What inputmap yields on the lines of S, as a bag.
MapBag(S) ==
    IF S = {} THEN EmptyBag
    ELSE LET l == CHOOSE x \in S : TRUE
         IN  BagOfSeq(InputMapOut(l).out) (+) MapBag(S \ {l})

RECURSIVE SeqOfBag(_)
\* One of the orders of a bag.
SeqOfBag(bag) ==
    IF DOMAIN bag = {} THEN <<>>
    ELSE LET v == CHOOSE x \in DOMAIN bag : TRUE
         IN  [i \in 1..bag[v] |-> v] \o SeqOfBag([x \in DOMAIN bag \ {v} |-> bag[x]])

\* What step 1 yields on the lines of S, as a bag.
JoinBag(S) ==
    LET M == MapBag(S)
    IN  BagOfCalls([k \in Keys(M) |-> JoinRedOut(k, SeqOfBag(Group(M, k)))])

\* The state of the job is the one a job on the same input without the
\* rows that satisfy P would be in: same map output, same exception if
\* any, and the same contributions and step 2 results for every key.
SameAsWithout(P(_)) ==
    LET kept == {l \in Mapped : ~P(l)}
        rest == {l \in input : ~P(l)}
        M == MapBag(rest)
        joined == JoinBag(rest)
    IN  /\ mapout1 = MapBag(kept)
        /\ (status = "failed" /\ sumout = <<>>) =>
               \E l \in kept : InputMapOut(l).err = err
        /\ \A U \in DOMAIN joinout :
               /\ U \in Keys(M)
               /\ BagOfSeq(joinout[U]) =
                      BagOfSeq(JoinRedOut(U, SeqOfBag(Group(M, U))))
        /\ \A k \in DOMAIN sumout :
               /\ k \in Keys(joined)
               /\ sumout[k] =
                      SumRedOut(k, SeqOfBag(Group(joined, k)), options).out

\* The number an option value stands for.
OptNum(x) == IF x.type = "int" THEN x.int ELSE PyInt(x.str).v

Alphabet == <<"a", "b", "c", "i", "j">>
CharCode(c) == CHOOSE n \in DOMAIN Alphabet : Alphabet[n] = c

RECURSIVE StrLess(_, _)
StrLess(s, t) ==
    IF t = <<>> THEN FALSE
    ELSE IF s = <<>> THEN TRUE
    ELSE IF Head(s) = Head(t) THEN StrLess(Tail(s), Tail(t))
    ELSE CharCode(Head(s)) < CharCode(Head(t))

(***************************************************************************)
(* C1.  Join fan-out: for every key U joinred was called on, with n rating *)
(* rows by U and m positive trust rows naming U in the input, the call     *)
(* yields exactly n*m contributions, every one of them the contribution of *)
(* a (trust row, rating row) pair with the rating unchanged, each as often *)
(* as there are pairs that give it; joinred never fails the job.           *)
(***************************************************************************)
C1_JoinFanOut ==
    /\ \A U \in DOMAIN joinout :
         LET R == RatingRowsBy(U)
             T == PosTrustRowsOf(U)
             out == BagOfSeq(joinout[U])
         IN  /\ Len(joinout[U]) = Cardinality(R) * Cardinality(T)
             /\ \A c \in DOMAIN out : \E tl \in T, rl \in R : c = PairOf(tl, rl)
             /\ \A tl \in T, rl \in R :
                    /\ PairOf(tl, rl) \in DOMAIN out
                    /\ out[PairOf(tl, rl)] =
                         Cardinality({pr \in T \X R : PairOf(pr[1], pr[2]) = PairOf(tl, rl)})
    /\ (joinout # <<>> /\ sumout = <<>>) => status = "running"

C1_Witness ==
    \E U \in DOMAIN joinout :
        /\ Cardinality(RatingRowsBy(U)) = 2
        /\ Cardinality(PosTrustRowsOf(U)) = 2
        /\ Len(joinout[U]) = 4

(***************************************************************************)
(* C2.  Smoothed aggregation: every call of sumred yields exactly one      *)
(* output for its key, with score (sum of the contributed ratings +        *)
(* priorAvg) / (number of them + 1), priorAvg being the configured         *)
(* constant, 3 by default.                                                 *)
(***************************************************************************)
C2_SmoothedScore ==
    \A k \in DOMAIN sumout :
        LET ratings == SeqOfBag(Group(BagOfCalls(joinout), k))
        IN  sumout[k] =
              <<<<k, Quot(SumSeq(ratings) + OptNum(options.avg), Len(ratings) + 1)>>>>

(***************************************************************************)
(* C3.  Top-K ordering: every call of topkoutput yields a list ordered by  *)
(* score descending, equal scores by itemId ascending.                     *)
(***************************************************************************)
C3_TopKOrdered ==
    \A u \in DOMAIN topkout :
        /\ Len(topkout[u]) = 1
        /\ LET L == topkout[u][1][2]
           IN  \A i \in 1..(Len(L) - 1) :
                  \/ ScoreLess(L[i + 1][2], L[i][2])
                  \/ L[i][2] = L[i + 1][2] /\ StrLess(L[i][1], L[i + 1][1])

(***************************************************************************)
(* C4.  Top-K truncation: for topK = K >= 0 every call of topkoutput on a  *)
(* user with n scored items yields exactly one record, whose list holds    *)
(* min(K, n) of the user's scored items, none twice, and leaves out no     *)
(* item with a score greater than one in the list.                        *)
(***************************************************************************)
C4_TopKTruncated ==
    OptNum(options.topk) >= 0 =>
    \A u \in DOMAIN topkout :
        /\ Len(topkout[u]) = 1
        /\ topkout[u][1][1] = u
        /\ LET L == topkout[u][1][2]
               G == DOMAIN Group(mapout3, u)
               K == OptNum(options.topk)
               n == Cardinality(G)
           IN  /\ Len(L) = IF K < n THEN K ELSE n
               /\ Range(L) \subseteq G
               /\ \A i, j \in DOMAIN L : L[i] = L[j] => i = j
               /\ \A g \in G \ Range(L) : \A i \in DOMAIN L : ~ScoreLess(L[i][2], g[2])

(***************************************************************************)
(* C5.  Negative trust exclusion: a 4-field row whose value is <= 0 makes  *)
(* inputmap yield nothing and raise nothing, and the contributions and     *)
(* step 2 results are those of the input without such rows.                *)
(***************************************************************************)
C5_NonPositiveTrustIgnored == SameAsWithout(NonPosTrustRow)

C5_Witness ==
    \E U \in DOMAIN joinout :
        /\ \E l \in input : NonPosTrustRow(l) /\ PyStrip(Fields(l)[2]) = U
        /\ RatingRowsBy(U) # {}
        /\ joinout[U] # <<>>

C9_FailFast ==
    OptNum(options.topk) < 0 =>
        /\ todo = input
        /\ joinout = <<>>
        /\ sumout = <<>>

(***************************************************************************)
(* C10.  No mid-key emission: a reducer call has taken every value of its  *)
(* key before it yields its first output.                                  *)
(***************************************************************************)
C10_NoMidKeyEmission == emitted # <<>> => pending = <<>>

C10_Witness ==
    /\ red = "joinred"
    /\ Len(tusers) + Len(ratobjs) = 3
    /\ Len(emitted) = 2

====
